---- MODULE Spec2Model ----
(***************************************************************************)
(* Feature-flag resolver and gate of textql-mcp                            *)
(* (src/textql_mcp/core/feature_flags.py).                                 *)
(*                                                                         *)
(* Python values are modelled as pairs <<type, repr>> of strings, so that  *)
(* True, 1 and "true" stay different values and bool() is a real           *)
(* conversion.  A Python dict is a sequence of <<key, value>> pairs in     *)
(* insertion order.                                                        *)
(***************************************************************************)
EXTENDS Integers, Sequences, FiniteSets, TLC

VARIABLES
    phase,   \* "new": no manager constructed; "ready": manager constructed;
             \* "failed": the constructor raised
    env,     \* os.environ: function from variable names to strings
    flags,   \* FeatureFlagManager.flags (dict: sequence of <<name, value>>)
    call,    \* the last call made: operation and arguments
    ret,     \* what the last call returned or raised
    log,     \* log records emitted by the last call
    opcalls, \* invocations of the wrapped operation made by the last gated call
    gate,    \* the gate built by feature_flag_required(flag, message)(func)
    task,    \* the suspended asynchronous gated call, if any
    held,    \* the mapping a caller keeps from get_all_flags(), if any
    trail,   \* history: the decisions of the latest gated calls of the gate
    threads, \* the set_flag calls in progress, one per concurrent caller
    nlq,     \* the process_natural_language_query call in progress
    sqe      \* the SpannerQueryExecutor: its graph-store cache and last call

vars == <<phase, env, flags, call, ret, log, opcalls, gate, task, held,
          trail, threads, nlq, sqe>>

----------------------------------------------------------------------------
(* Bounds of the model *)

MaxConfigKeys == 1   \* entries in the config's feature_flags section
MaxEnvVars    == 1   \* variables set in the process environment
MaxAttempts   == 3   \* largest max_attempts given to the refinement loop
MaxBuilds     == 3   \* graph stores constructed by one executor

----------------------------------------------------------------------------
(* Python values *)

PyTrue  == <<"bool", "True">>
PyFalse == <<"bool", "False">>
PyNone  == <<"NoneType", "None">>
PyInt0  == <<"int", "0">>
PyStrEmpty == <<"str", "">>
PyStrFalse == <<"str", "false">>
PyStrOff   == <<"str", "off">>
NoVal   == <<"-", "-">>          \* "no such argument" filler

\* Python truth value testing
Truthy(v) ==
    CASE v[1] = "bool"     -> v[2] = "True"
      [] v[1] = "int"      -> v[2] # "0"
      [] v[1] = "str"      -> v[2] # ""
      [] v[1] = "NoneType" -> FALSE
      [] OTHER             -> TRUE

PyBoolOf(b) == IF b THEN PyTrue ELSE PyFalse

\* bool(value)
bool(v) == PyBoolOf(Truthy(v))

IsBool(v) == v[1] = "bool"

----------------------------------------------------------------------------
(* dict operations *)

EmptyDict == <<>>

DictKeys(d) == {d[i][1] : i \in 1..Len(d)}

DictHas(d, k) == \E i \in 1..Len(d) : d[i][1] = k

\* d.get(k, default)
DictGet(d, k, default) ==
    IF DictHas(d, k)
    THEN d[CHOOSE i \in 1..Len(d) : d[i][1] = k][2]
    ELSE default

\* d[k] = v
DictSet(d, k, v) ==
    IF DictHas(d, k)
    THEN [i \in 1..Len(d) |-> IF d[i][1] = k THEN <<k, v>> ELSE d[i]]
    ELSE Append(d, <<k, v>>)

\* d.copy()
DictCopy(d) == [i \in 1..Len(d) |-> <<d[i][1], d[i][2]>>]

\* d.pop(k, None)
DictDel(d, k) == SelectSeq(d, LAMBDA kv : kv[1] # k)

----------------------------------------------------------------------------
(* class FeatureFlag(str, Enum): members in definition order *)

FeatureFlag ==
    << <<"ENABLE_QUERY_GRAPH",           "enable_query_graph">>,
       <<"ENABLE_SCHEMA_FETCH",          "enable_schema_fetch">>,
       <<"ENABLE_NATURAL_LANGUAGE",      "enable_natural_language">>,
       <<"ENABLE_ADMIN_ENDPOINTS",       "enable_admin_endpoints">>,
       <<"ENABLE_FLAG_RUNTIME_UPDATES",  "enable_flag_runtime_updates">>,
       <<"ENABLE_AUTH_CHECKS",           "enable_auth_checks">>,
       <<"ENABLE_RATE_LIMITING",         "enable_rate_limiting">>,
       <<"ENABLE_EXPERIMENTAL_FEATURES", "enable_experimental_features">> >>

\* [f.value for f in FeatureFlag]
FlagValues == [i \in 1..Len(FeatureFlag) |-> FeatureFlag[i][2]]

\* the .value of the member called m
ValueOfMember(m) ==
    FeatureFlag[CHOOSE i \in 1..Len(FeatureFlag) : FeatureFlag[i][1] = m][2]

\* A flag argument is <<"str", s>> (a raw string) or <<"FeatureFlag", M>>
\* (the enum member M).
StrHandle(s)    == <<"str", s>>
MemberHandle(m) == <<"FeatureFlag", m>>
NoHandle        == <<"-", "-">>

\* hasattr(flag, "value")
HasValueAttr(h) == h[1] = "FeatureFlag"

\* flag.value if hasattr(flag, "value") else flag
FlagKey(h) == IF HasValueAttr(h) THEN ValueOfMember(h[2]) ELSE h[2]

\* FeatureFlag.ENABLE_FLAG_RUNTIME_UPDATES
ENABLE_FLAG_RUNTIME_UPDATES == MemberHandle("ENABLE_FLAG_RUNTIME_UPDATES")

RU == "enable_flag_runtime_updates"

\* names outside the closed set: an undefined flag, and a member's NAME
\* used where its value is expected
UnknownNames == {"unknown_flag", "ENABLE_QUERY_GRAPH"}

----------------------------------------------------------------------------
(* Strings: the case conversions the code applies, on the strings used here *)

\* str.upper() on flag names
StrUpper(s) ==
    CASE s = "enable_query_graph"           -> "ENABLE_QUERY_GRAPH"
      [] s = "enable_schema_fetch"          -> "ENABLE_SCHEMA_FETCH"
      [] s = "enable_natural_language"      -> "ENABLE_NATURAL_LANGUAGE"
      [] s = "enable_admin_endpoints"       -> "ENABLE_ADMIN_ENDPOINTS"
      [] s = "enable_flag_runtime_updates"  -> "ENABLE_FLAG_RUNTIME_UPDATES"
      [] s = "enable_auth_checks"           -> "ENABLE_AUTH_CHECKS"
      [] s = "enable_rate_limiting"         -> "ENABLE_RATE_LIMITING"
      [] s = "enable_experimental_features" -> "ENABLE_EXPERIMENTAL_FEATURES"
      [] s = "unknown_flag"                 -> "UNKNOWN_FLAG"
      [] OTHER                              -> s

\* str.lower() on environment values
StrLower(s) ==
    CASE s \in {"TRUE", "True"} -> "true"
      [] s \in {"YES", "Yes"}   -> "yes"
      [] s \in {"ON", "On"}     -> "on"
      [] OTHER                  -> s

ENV_PREFIX == "TEXTQL_FF_"

\* f"{self.ENV_PREFIX}{flag.value.upper()}"
EnvVarOf(value) == ENV_PREFIX \o StrUpper(value)

\* ("true", "1", "yes", "on")
TrueTokens == {"true", "1", "yes", "on"}

----------------------------------------------------------------------------
(* Log records of level WARNING and above: <<level, message, subject>> *)

WarnUnknownInConfig(k) == <<"warning", "Unknown feature flag in config", k>>
WarnUpdatesDisabled    == <<"warning", "Runtime flag updates are disabled", "">>
ErrUnknownFlag(k)      == <<"error", "Unknown feature flag", k>>
WarnNoFlags            == <<"warning", "Could not access feature flags", "">>

----------------------------------------------------------------------------
(* The constructor's config argument.                                      *)
(*   kind    : "None" (no config) or "dict"                                *)
(*   other   : the dict has keys other than feature_flags                  *)
(*   section : type of config["feature_flags"], or "absent"                *)
(*   items   : the feature_flags mapping when section = "dict"             *)

ConfigOf(kind, other, section, items) ==
    [kind |-> kind, other |-> other, section |-> section, items |-> items]

NoConfig == ConfigOf("None", FALSE, "absent", EmptyDict)

\* truth value of the config argument: None and {} are falsy
ConfigTruthy(config) ==
    config.kind = "dict" /\ (config.other \/ config.section # "absent")

\* config.get("feature_flags", {}) names the flag k
ConfigNames(config, k) ==
    ConfigTruthy(config) /\ config.section = "dict" /\ DictHas(config.items, k)

----------------------------------------------------------------------------
(* FeatureFlagManager *)

\* variant: enable_natural_language enabled by default like the other core flags
_load_defaults_core_on ==
    << <<"enable_query_graph",           PyTrue>>,
       <<"enable_schema_fetch",          PyTrue>>,
       <<"enable_natural_language",      PyTrue>>,
       <<"enable_admin_endpoints",       PyFalse>>,
       <<"enable_flag_runtime_updates",  PyFalse>>,
       <<"enable_auth_checks",           PyFalse>>,
       <<"enable_rate_limiting",         PyFalse>>,
       <<"enable_experimental_features", PyFalse>> >>

\* _load_defaults
_load_defaults ==
    << <<"enable_query_graph",           PyTrue>>,
       <<"enable_schema_fetch",          PyTrue>>,
       <<"enable_natural_language",      PyFalse>>,
       <<"enable_admin_endpoints",       PyFalse>>,
       <<"enable_flag_runtime_updates",  PyFalse>>,
       <<"enable_auth_checks",           PyFalse>>,
       <<"enable_rate_limiting",         PyFalse>>,
       <<"enable_experimental_features", PyFalse>> >>

\* variant: the config value is stored as it is, without bool()
ConfigItem_raw(st, flag, value) ==
    IF \E i \in 1..Len(FlagValues) : FlagValues[i] = flag
    THEN [flags |-> DictSet(st.flags, flag, value), log |-> st.log]
    ELSE [flags |-> st.flags, log |-> st.log \cup {WarnUnknownInConfig(flag)}]

\* one iteration of the loop of _load_from_config
ConfigItem(st, flag, value) ==
    IF \E i \in 1..Len(FlagValues) : FlagValues[i] = flag
    THEN [flags |-> DictSet(st.flags, flag, bool(value)), log |-> st.log]
    ELSE [flags |-> st.flags, log |-> st.log \cup {WarnUnknownInConfig(flag)}]

RECURSIVE ConfigLoop(_, _, _)
ConfigLoop(st, items, i) ==
    IF i > Len(items) THEN st
    ELSE ConfigLoop(ConfigItem(st, items[i][1], items[i][2]), items, i + 1)

\* _load_from_config: feature_flags = config.get("feature_flags", {});
\* .items() of a section that is no mapping raises AttributeError
_load_from_config(st, config) ==
    CASE config.section = "absent" ->
            [flags |-> st.flags, log |-> st.log, raised |-> ""]
      [] config.section = "dict" ->
            LET r == ConfigLoop(st, config.items, 1)
            IN  [flags |-> r.flags, log |-> r.log, raised |-> ""]
      [] OTHER ->
            [flags |-> st.flags, log |-> st.log, raised |-> "AttributeError"]

\* variant: the value is compared with the tokens as it is, without lower()
EnvItem_exact_case(fl, e, value) ==
    LET env_var == EnvVarOf(value)
    IN  IF env_var \in DOMAIN e
        THEN DictSet(fl, value, PyBoolOf(e[env_var] \in TrueTokens))
        ELSE fl

\* one iteration of the loop of _load_from_env
EnvItem(fl, e, value) ==
    LET env_var == EnvVarOf(value)
    IN  IF env_var \in DOMAIN e
        THEN DictSet(fl, value, PyBoolOf(StrLower(e[env_var]) \in TrueTokens))
        ELSE fl

RECURSIVE EnvLoop(_, _, _)
EnvLoop(fl, e, i) ==
    IF i > Len(FeatureFlag) THEN fl
    ELSE EnvLoop(EnvItem(fl, e, FeatureFlag[i][2]), e, i + 1)

\* _load_from_env
_load_from_env(fl, e) == EnvLoop(fl, e, 1)

\* variant: the environment is read before the config
__init___env_first(config, e) ==
    LET d == [flags |-> _load_from_env(_load_defaults, e), log |-> {}, raised |-> ""]
    IN  IF ConfigTruthy(config)
        THEN LET c == _load_from_config(d, config)
             IN  IF c.raised # ""
                 THEN [flags |-> EmptyDict, log |-> c.log, raised |-> c.raised]
                 ELSE c
        ELSE d

\* __init__(config): defaults, then config (if truthy), then environment
__init__(config, e) ==
    LET d == [flags |-> _load_defaults, log |-> {}, raised |-> ""]
        c == IF ConfigTruthy(config) THEN _load_from_config(d, config) ELSE d
    IN  IF c.raised # ""
        THEN [flags |-> EmptyDict, log |-> c.log, raised |-> c.raised]
        ELSE [flags |-> _load_from_env(c.flags, e), log |-> c.log, raised |-> ""]

\* variant: a missing name counts as enabled
is_enabled_default_true(fl, flag) == DictGet(fl, FlagKey(flag), PyTrue)

\* is_enabled(flag)
is_enabled(fl, flag) == DictGet(fl, FlagKey(flag), PyFalse)

\* variant: no check of the name against the enum
set_flag_unchecked(fl, flag, enabled) ==
    IF ~Truthy(is_enabled(fl, ENABLE_FLAG_RUNTIME_UPDATES))
    THEN [flags |-> fl, ret |-> PyFalse, log |-> {WarnUpdatesDisabled}]
    ELSE [flags |-> DictSet(fl, FlagKey(flag), enabled), ret |-> PyTrue, log |-> {}]

\* variant: the switch itself can always be set
set_flag_switch_exempt(fl, flag, enabled) ==
    LET key == FlagKey(flag)
    IN  IF ~Truthy(is_enabled(fl, ENABLE_FLAG_RUNTIME_UPDATES)) /\ key # RU
        THEN [flags |-> fl, ret |-> PyFalse, log |-> {WarnUpdatesDisabled}]
        ELSE IF ~(\E i \in 1..Len(FlagValues) : FlagValues[i] = key)
             THEN [flags |-> fl, ret |-> PyFalse, log |-> {ErrUnknownFlag(key)}]
             ELSE [flags |-> DictSet(fl, key, enabled), ret |-> PyTrue, log |-> {}]

\* variant: the new value is coerced with bool() before it is stored
set_flag_coerced(fl, flag, enabled) ==
    IF ~Truthy(is_enabled(fl, ENABLE_FLAG_RUNTIME_UPDATES))
    THEN [flags |-> fl, ret |-> PyFalse, log |-> {WarnUpdatesDisabled}]
    ELSE LET key == FlagKey(flag)
         IN  IF ~(\E i \in 1..Len(FlagValues) : FlagValues[i] = key)
             THEN [flags |-> fl, ret |-> PyFalse, log |-> {ErrUnknownFlag(key)}]
             ELSE [flags |-> DictSet(fl, key, bool(enabled)), ret |-> PyTrue,
                   log |-> {}]

\* variant: an unknown name is logged but reported as a success
set_flag_unknown_ok(fl, flag, enabled) ==
    IF ~Truthy(is_enabled(fl, ENABLE_FLAG_RUNTIME_UPDATES))
    THEN [flags |-> fl, ret |-> PyFalse, log |-> {WarnUpdatesDisabled}]
    ELSE LET key == FlagKey(flag)
         IN  IF ~(\E i \in 1..Len(FlagValues) : FlagValues[i] = key)
             THEN [flags |-> fl, ret |-> PyTrue, log |-> {ErrUnknownFlag(key)}]
             ELSE [flags |-> DictSet(fl, key, enabled), ret |-> PyTrue, log |-> {}]

\* variant: with updates disabled, a call that switches them on goes through
set_flag_latch_open(fl, flag, enabled) ==
    LET key == FlagKey(flag)
    IN  IF ~Truthy(is_enabled(fl, ENABLE_FLAG_RUNTIME_UPDATES))
           /\ ~(key = RU /\ Truthy(enabled))
        THEN [flags |-> fl, ret |-> PyFalse, log |-> {WarnUpdatesDisabled}]
        ELSE IF ~(\E i \in 1..Len(FlagValues) : FlagValues[i] = key)
             THEN [flags |-> fl, ret |-> PyFalse, log |-> {ErrUnknownFlag(key)}]
             ELSE [flags |-> DictSet(fl, key, enabled), ret |-> PyTrue, log |-> {}]

\* variant: the entry is written before the switch is looked at
set_flag_write_first(fl, flag, enabled) ==
    LET key == FlagKey(flag)
    IN  IF ~(\E i \in 1..Len(FlagValues) : FlagValues[i] = key)
        THEN [flags |-> fl, ret |-> PyFalse, log |-> {ErrUnknownFlag(key)}]
        ELSE IF ~Truthy(is_enabled(fl, ENABLE_FLAG_RUNTIME_UPDATES))
             THEN [flags |-> DictSet(fl, key, enabled), ret |-> PyFalse,
                   log |-> {WarnUpdatesDisabled}]
             ELSE [flags |-> DictSet(fl, key, enabled), ret |-> PyTrue, log |-> {}]

\* set_flag(flag, enabled)
set_flag(fl, flag, enabled) ==
    IF ~Truthy(is_enabled(fl, ENABLE_FLAG_RUNTIME_UPDATES))
    THEN [flags |-> fl, ret |-> PyFalse, log |-> {WarnUpdatesDisabled}]
    ELSE LET key == FlagKey(flag)
         IN  IF ~(\E i \in 1..Len(FlagValues) : FlagValues[i] = key)
             THEN [flags |-> fl, ret |-> PyFalse, log |-> {ErrUnknownFlag(key)}]
             ELSE [flags |-> DictSet(fl, key, enabled), ret |-> PyTrue, log |-> {}]

\* set_flag up to the write: the test of the switch (line 140) and of the
\* name (lines 144-149); TRUE when the call goes on to write
set_flag_check(fl, flag) ==
    /\ Truthy(is_enabled(fl, ENABLE_FLAG_RUNTIME_UPDATES))
    /\ \E i \in 1..Len(FlagValues) : FlagValues[i] = FlagKey(flag)

\* variant: the write flips the entry it finds instead of storing the value
set_flag_store_toggle(fl, flag, enabled) ==
    DictSet(fl, FlagKey(flag),
            PyBoolOf(~Truthy(DictGet(fl, FlagKey(flag), PyFalse))))

\* the write of set_flag: self.flags[flag] = enabled (line 152)
set_flag_store(fl, flag, enabled) == DictSet(fl, FlagKey(flag), enabled)

\* get_all_flags()
get_all_flags(fl) == DictCopy(fl)

\* variant: get_all_flags() hands out self.flags itself
ReturnedMapping_no_copy(fl) == [obj |-> "self.flags", items |-> fl]

\* the object get_all_flags() hands out: self.flags.copy() is a new dict
ReturnedMapping(fl) == [obj |-> "new dict", items |-> get_all_flags(fl)]

\* variant: only entries that are the object True are listed
get_enabled_features_only_true(fl) ==
    LET on == SelectSeq(fl, LAMBDA kv : kv[2] = PyTrue)
    IN  [i \in 1..Len(on) |-> on[i][1]]

\* get_enabled_features()
get_enabled_features(fl) ==
    LET on == SelectSeq(fl, LAMBDA kv : Truthy(kv[2]))
    IN  [i \in 1..Len(on) |-> on[i][1]]

----------------------------------------------------------------------------
(* Records of the last call and of its outcome *)

\* kw, a0: the ctx keyword argument and the first positional argument of a
\* gated call; outcome: what the wrapped operation does when it runs
NoOutcome == [kind |-> "-", val |-> NoVal]

NoCall ==
    [op |-> "-", flag |-> NoHandle, val |-> NoVal, config |-> NoConfig,
     kw |-> "-", a0 |-> "-", outcome |-> NoOutcome]

CallOf(op, flag, val, config) ==
    [NoCall EXCEPT !.op = op, !.flag = flag, !.val = val, !.config = config]

GatedCallOf(op, kw, a0, outcome) ==
    [NoCall EXCEPT !.op = op, !.kw = kw, !.a0 = a0, !.outcome = outcome]

\* kind: "-" (nothing yet), "none" (returned None), "value", "dict", "list",
\*       "raise", "pending" (the coroutine is suspended)
RetOf(kind, val, map, names, exc) ==
    [kind |-> kind, val |-> val, map |-> map, names |-> names, exc |-> exc]

NoRet == RetOf("-", NoVal, EmptyDict, <<>>, "")

RetValue(v) == RetOf("value", v, EmptyDict, <<>>, "")
RetDict(d)  == RetOf("dict", NoVal, d, <<>>, "")
RetList(l)  == RetOf("list", NoVal, EmptyDict, l, "")
RetRaise(e) == RetOf("raise", NoVal, EmptyDict, <<>>, e)
RetNone     == RetOf("none", PyNone, EmptyDict, <<>>, "")

RetPending  == RetOf("pending", NoVal, EmptyDict, <<>>, "")

NoGate == [flag |-> NoHandle, message |-> NoVal, kind |-> "-"]

NoTask == [state |-> "-", kw |-> "-", a0 |-> "-"]

NoHeld == [obj |-> "-", items |-> EmptyDict]

\* the history of a gate whose decisions are not recorded
NoTrail == << "-" >>

\* the history window: the decisions of the latest gated calls
TrailLen == 3

\* a recorded history with one more decision, the oldest one dropped
Track(t, refused) ==
    LET e == IF refused THEN "refused" ELSE "passed"
    IN  IF t = NoTrail THEN t
        ELSE IF Len(t) < TrailLen THEN Append(t, e)
        ELSE Append(Tail(t), e)

\* the callers that may run set_flag at the same time
Callers == {"t1", "t2"}

\* a caller is "idle", or between the lines of set_flag: "check" (before
\* line 140), "write" (before line 152), "done" (returned `ret`)
IdleThread == [pc |-> "idle", flag |-> NoHandle, val |-> NoVal, ret |-> NoVal]

NoThreads == [t \in Callers |-> IdleThread]

\* process_natural_language_query: pc is "idle", "loop" (at the head of the
\* for loop), "after" (the loop is left), "returned" or "raised"
\* attempt: the loop variable; attempts: the list of attempt_info records;
\* calls: executor calls made; result: final_result["result"]
NoQuery ==
    [pc |-> "idle", max_attempts |-> 0, attempt |-> 0, attempts |-> <<>>,
     calls |-> 0, result |-> ""]

\* SpannerQueryExecutor after __init__: self._graph_store_cache = {}.
\*   cache : _graph_store_cache, a dict from agent types to stores
\*   made  : the agent types SpannerGraphStore objects were constructed for,
\*           in order; the n-th object constructed is the store n
\*   op, agent : the last call; out : "returned" or "raised"; exc : what it
\*           raised; store : the store _get_graph_store returned;
\*   constructed : the last call invoked SpannerGraphStore(...);
\*   chain, invoke : what the chain factory and chain.invoke gave to the
\*           last execute_query; keys, error : the keys of the mapping it
\*           returned, and its error entry
NoExecutor ==
    [cache |-> <<>>, made |-> <<>>, op |-> "-", agent |-> "-", out |-> "-",
     exc |-> "", store |-> 0, constructed |-> FALSE, chain |-> "-",
     invoke |-> "-", keys |-> {}, error |-> ""]

----------------------------------------------------------------------------
(* feature_flag_required: the gate                                         *)
(*                                                                         *)
(* An argument of a gated call is one of                                   *)
(*   "absent"   : not passed                                               *)
(*   "None"     : None                                                     *)
(*   "plain"    : an object without lifespan_ctx (e.g. "test_data")        *)
(*   "no_ff"    : a context whose lifespan_ctx has no feature_flags        *)
(*   "ff_none"  : a context whose lifespan_ctx.feature_flags is None       *)
(*   "resolver" : a context whose lifespan_ctx.feature_flags is the        *)
(*                manager                                                  *)
(* Contexts and the manager are ordinary objects, hence truthy.            *)

\* hasattr(x, "lifespan_ctx")
HasLifespanCtx(x) == x \in {"no_ff", "ff_none", "resolver"}

\* getattr(ctx.lifespan_ctx, "feature_flags", None)
FeatureFlagsOf(ctx) == IF ctx = "resolver" THEN "manager" ELSE "None"

\* ctx = kwargs.get("ctx")
\* if ctx is None and args:
\*     ctx = args[0] if hasattr(args[0], "lifespan_ctx") else None
LocateSync(kw, a0) ==
    LET ctx == IF kw = "absent" THEN "None" ELSE kw
    IN  IF ctx = "None" /\ a0 # "absent"
        THEN (IF HasLifespanCtx(a0) THEN a0 ELSE "None")
        ELSE ctx

\* variant: the async wrapper looks at the ctx keyword only
LocateAsync_keyword_only(kw, a0) ==
    IF kw = "absent" THEN "None" ELSE kw

LocateAsync(kw, a0) ==
    LET ctx == IF kw = "absent" THEN "None" ELSE kw
    IN  IF ctx = "None" /\ a0 # "absent"
        THEN (IF HasLifespanCtx(a0) THEN a0 ELSE "None")
        ELSE ctx

\* default_msg = f"Feature '{flag.value}' is not enabled"
DefaultMsg(flag) == "Feature '" \o ValueOfMember(flag[2]) \o "' is not enabled"

\* variant: the refusal always carries the default text
Refusal_default_only(g) ==
    << <<"error", <<"str", DefaultMsg(g.flag)>> >>,
       <<"feature_required", <<"str", ValueOfMember(g.flag[2])>> >>,
       <<"enabled", PyFalse>> >>

\* {"error": error_message or default_msg, "feature_required": flag.value,
\*  "enabled": False}
Refusal(g) ==
    << <<"error", IF Truthy(g.message) THEN g.message
                  ELSE <<"str", DefaultMsg(g.flag)>> >>,
       <<"feature_required", <<"str", ValueOfMember(g.flag[2])>> >>,
       <<"enabled", PyFalse>> >>

\* variant: once the wrapped operation has run, the gate remembers it and
\* lets every later call through
SyncCheck_sticky(g, fl, kw, a0) ==
    LET ctx == LocateSync(kw, a0)
    IN  IF ctx # "None" /\ HasLifespanCtx(ctx)
        THEN IF FeatureFlagsOf(ctx) # "None" /\ ~Truthy(is_enabled(fl, g.flag))
                /\ opcalls = <<>>
             THEN [refused |-> TRUE, payload |-> Refusal(g), log |-> {}]
             ELSE [refused |-> FALSE, payload |-> EmptyDict, log |-> {}]
        ELSE [refused |-> FALSE, payload |-> EmptyDict, log |-> {WarnNoFlags}]

\* variant: a call is refused unless a resolver is found that enables the flag
SyncCheck_fail_closed(g, fl, kw, a0) ==
    LET ctx == LocateSync(kw, a0)
    IN  IF ctx # "None" /\ HasLifespanCtx(ctx) /\ FeatureFlagsOf(ctx) # "None"
           /\ Truthy(is_enabled(fl, g.flag))
        THEN [refused |-> FALSE, payload |-> EmptyDict, log |-> {}]
        ELSE [refused |-> TRUE, payload |-> Refusal(g), log |-> {WarnNoFlags}]

\* the part of sync_wrapper that precedes func(...)
SyncCheck(g, fl, kw, a0) ==
    LET ctx == LocateSync(kw, a0)
    IN  IF ctx # "None" /\ HasLifespanCtx(ctx)
        THEN IF FeatureFlagsOf(ctx) # "None" /\ ~Truthy(is_enabled(fl, g.flag))
             THEN [refused |-> TRUE, payload |-> Refusal(g), log |-> {}]
             ELSE [refused |-> FALSE, payload |-> EmptyDict, log |-> {}]
        ELSE [refused |-> FALSE, payload |-> EmptyDict, log |-> {WarnNoFlags}]

\* the part of async_wrapper that precedes await func(...)
AsyncCheck(g, fl, kw, a0) ==
    LET ctx == LocateAsync(kw, a0)
    IN  IF ctx # "None" /\ HasLifespanCtx(ctx)
        THEN IF FeatureFlagsOf(ctx) # "None" /\ ~Truthy(is_enabled(fl, g.flag))
             THEN [refused |-> TRUE, payload |-> Refusal(g), log |-> {}]
             ELSE [refused |-> FALSE, payload |-> EmptyDict, log |-> {}]
        ELSE [refused |-> FALSE, payload |-> EmptyDict, log |-> {WarnNoFlags}]

\* variant: func is called before the check and its result dropped on refusal
sync_wrapper_call_first(g, fl, kw, a0, outcome) ==
    LET c == SyncCheck(g, fl, kw, a0)
    IN  [ret |-> IF c.refused THEN RetDict(c.payload)
                 ELSE IF outcome.kind = "raise" THEN RetRaise(outcome.val[2])
                 ELSE RetValue(outcome.val),
         opcalls |-> << [kw |-> kw, a0 |-> a0] >>,
         log |-> c.log]

\* sync_wrapper(...): the check, then return func(...)
sync_wrapper(g, fl, kw, a0, outcome) ==
    LET c == SyncCheck(g, fl, kw, a0)
    IN  IF c.refused
        THEN [ret |-> RetDict(c.payload), opcalls |-> <<>>, log |-> c.log]
        ELSE [ret |-> IF outcome.kind = "raise" THEN RetRaise(outcome.val[2])
                      ELSE RetValue(outcome.val),
              opcalls |-> << [kw |-> kw, a0 |-> a0] >>,
              log |-> c.log]

\* variant: the wrapper yields to the event loop between the check and the
\* start of func
async_wrapper_yield_first(g, fl, kw, a0, outcome, suspends) ==
    LET c == AsyncCheck(g, fl, kw, a0)
    IN  IF c.refused
        THEN [ret |-> RetDict(c.payload), opcalls |-> <<>>, log |-> c.log,
              suspended |-> FALSE]
        ELSE [ret |-> IF suspends THEN RetPending
                      ELSE IF outcome.kind = "raise" THEN RetRaise(outcome.val[2])
                      ELSE RetValue(outcome.val),
              opcalls |-> IF suspends THEN <<>> ELSE << [kw |-> kw, a0 |-> a0] >>,
              log |-> c.log,
              suspended |-> suspends]

\* variant: func is awaited but its result is not returned
async_wrapper_no_return(g, fl, kw, a0, outcome, suspends) ==
    LET c == AsyncCheck(g, fl, kw, a0)
    IN  IF c.refused
        THEN [ret |-> RetDict(c.payload), opcalls |-> <<>>, log |-> c.log,
              suspended |-> FALSE]
        ELSE [ret |-> IF suspends THEN RetPending
                      ELSE IF outcome.kind = "raise" THEN RetRaise(outcome.val[2])
                      ELSE RetNone,
              opcalls |-> << [kw |-> kw, a0 |-> a0] >>,
              log |-> c.log,
              suspended |-> suspends]

\* async_wrapper(...) up to the first suspension of func: the
\* check, then func(...) is started; `suspends` tells whether func
\* awaits before it finishes
async_wrapper(g, fl, kw, a0, outcome, suspends) ==
    LET c == AsyncCheck(g, fl, kw, a0)
    IN  IF c.refused
        THEN [ret |-> RetDict(c.payload), opcalls |-> <<>>, log |-> c.log,
              suspended |-> FALSE]
        ELSE [ret |-> IF suspends THEN RetPending
                      ELSE IF outcome.kind = "raise" THEN RetRaise(outcome.val[2])
                      ELSE RetValue(outcome.val),
              opcalls |-> << [kw |-> kw, a0 |-> a0] >>,
              log |-> c.log,
              suspended |-> suspends]

\* decorator(func): asyncio.iscoroutinefunction(func) picks the wrapper
decorator(flag, message, funcKind) ==
    [flag |-> flag, message |-> message,
     kind |-> IF funcKind = "coroutinefunction" THEN "async" ELSE "sync"]

\* variant: a context without a resolver counts as "enabled"
check_feature_flag_fail_open(fl, ctx, flag) ==
    IF HasLifespanCtx(ctx) /\ FeatureFlagsOf(ctx) # "None"
    THEN is_enabled(fl, flag)
    ELSE PyTrue

\* check_feature_flag(ctx, flag)
check_feature_flag(fl, ctx, flag) ==
    IF HasLifespanCtx(ctx)
    THEN IF FeatureFlagsOf(ctx) # "None"
         THEN is_enabled(fl, flag)
         ELSE PyFalse
    ELSE PyFalse

----------------------------------------------------------------------------
(* Inputs *)

\* dicts with at most n entries, keys from K, values from V
RECURSIVE Dicts(_, _, _)
Dicts(K, V, n) ==
    IF n = 0 THEN {EmptyDict}
    ELSE LET S == Dicts(K, V, n - 1)
             E == {<<d, k, v>> \in S \X K \X V :
                     Len(d) = n - 1 /\ ~DictHas(d, k)}
         IN  S \cup {Append(x[1], <<x[2], x[3]>>) : x \in E}

\* environments with at most n variables, names from N, values from V
Environments(N, V, n) ==
    UNION {[S -> V] : S \in {T \in SUBSET N : Cardinality(T) <= n}}

\* configs: no config, {}, a dict without the section, a section that is
\* no mapping, and a feature_flags mapping of at most n entries
ConfigsOver(K, V, n) ==
    {NoConfig,
     ConfigOf("dict", FALSE, "absent", EmptyDict),
     ConfigOf("dict", TRUE, "absent", EmptyDict),
     ConfigOf("dict", FALSE, "NoneType", EmptyDict),
     ConfigOf("dict", FALSE, "list", EmptyDict)}
    \cup {ConfigOf("dict", FALSE, "dict", d) : d \in Dicts(K, V, n)}

ConfigValues == {PyTrue, PyFalse, PyInt0, PyStrFalse}

\* the flags that configs and environments name: one that defaults to True,
\* one that defaults to False, and the switch of the runtime updates
InitFlags ==
    {"enable_query_graph", "enable_natural_language", "enable_flag_runtime_updates"}

Configs == ConfigsOver(InitFlags \cup UnknownNames, ConfigValues, MaxConfigKeys)

EnvVarNames ==
    {EnvVarOf(f) : f \in InitFlags}
    \cup {"TEXTQL_FF_UNKNOWN_FLAG", "textql_ff_enable_query_graph"}

EnvValues == {"true", "1", "yes", "on", "false", "TRUE", "", " true"}

Envs == Environments(EnvVarNames, EnvValues, MaxEnvVars)

\* the narrower inputs of the runs that go on to update flags at runtime
RunFlags == {"enable_query_graph", "enable_flag_runtime_updates"}

RunConfigs ==
    ConfigsOver(RunFlags \cup {"unknown_flag"}, {PyTrue, PyFalse}, MaxConfigKeys)

RunEnvs ==
    Environments({EnvVarOf(f) : f \in RunFlags} \cup {"TEXTQL_FF_UNKNOWN_FLAG"},
                 {"true", "false"}, MaxEnvVars)

\* flag arguments: raw strings (known and unknown) and enum members
RunHandles ==
    {StrHandle(s) : s \in RunFlags \cup {"enable_admin_endpoints"} \cup UnknownNames}
    \cup {MemberHandle(StrUpper(s)) : s \in RunFlags \cup {"enable_admin_endpoints"}}

\* values passed to set_flag
SetValues == {PyTrue, PyFalse, PyInt0, PyStrOff}

----------------------------------------------------------------------------
(* Actions of the resolver *)

InitWith(E, t) ==
    /\ phase = "new"
    /\ env \in E
    /\ flags = EmptyDict
    /\ call = NoCall
    /\ ret = NoRet
    /\ log = {}
    /\ opcalls = <<>>
    /\ gate = NoGate
    /\ task = NoTask
    /\ held = NoHeld
    /\ trail = t
    /\ threads = NoThreads
    /\ nlq = NoQuery
    /\ sqe = NoExecutor

\* the decisions of the gated calls are not recorded
InitOver(E) == InitWith(E, NoTrail)

\* manager = FeatureFlagManager(config)
Initialize(C) ==
    /\ phase = "new"
    /\ \E config \in C :
         LET r == __init__(config, env)
         IN  /\ phase' = IF r.raised = "" THEN "ready" ELSE "failed"
             /\ flags' = r.flags
             /\ call' = CallOf("__init__", NoHandle, NoVal, config)
             /\ ret' = IF r.raised = "" THEN RetNone ELSE RetRaise(r.raised)
             /\ log' = r.log
    /\ UNCHANGED <<env, opcalls, gate, task, held, trail, threads, nlq, sqe>>

\* manager.is_enabled(flag)
IsEnabled(H) ==
    /\ phase = "ready"
    /\ \E h \in H :
         /\ call' = CallOf("is_enabled", h, NoVal, NoConfig)
         /\ ret' = RetValue(is_enabled(flags, h))
    /\ log' = {}
    /\ UNCHANGED <<phase, env, flags, opcalls, gate, task, held, trail, threads, nlq, sqe>>

\* manager.set_flag(flag, enabled)
SetFlag(H, V) ==
    /\ phase = "ready"
    /\ \E h \in H, v \in V :
         LET r == set_flag(flags, h, v)
         IN  /\ flags' = r.flags
             /\ call' = CallOf("set_flag", h, v, NoConfig)
             /\ ret' = RetValue(r.ret)
             /\ log' = r.log
    /\ UNCHANGED <<phase, env, opcalls, gate, task, held, trail, threads, nlq, sqe>>

\* manager.get_all_flags(); the caller keeps the returned mapping
\* (returned = manager.get_all_flags()) or drops it after reading it
GetAllFlags(K) ==
    /\ phase = "ready"
    /\ call' = CallOf("get_all_flags", NoHandle, NoVal, NoConfig)
    /\ ret' = RetDict(get_all_flags(flags))
    /\ log' = {}
    /\ \E keep \in K : held' = IF keep THEN ReturnedMapping(flags) ELSE held
    /\ UNCHANGED <<phase, env, flags, opcalls, gate, task, trail, threads, nlq, sqe>>

\* manager.get_enabled_features()
GetEnabledFeatures ==
    /\ phase = "ready"
    /\ call' = CallOf("get_enabled_features", NoHandle, NoVal, NoConfig)
    /\ ret' = RetList(get_enabled_features(flags))
    /\ log' = {}
    /\ UNCHANGED <<phase, env, flags, opcalls, gate, task, held, trail, threads, nlq, sqe>>

----------------------------------------------------------------------------
(* Actions of the gate *)

\* inputs of the gate
\* the flag of a gate is a FeatureFlag member, as the signature declares
GateFlags ==
    {MemberHandle("ENABLE_QUERY_GRAPH"), MemberHandle("ENABLE_ADMIN_ENDPOINTS")}

GateMessages == {PyNone, PyStrEmpty, <<"str", "Admin access required">>}

FuncKinds == {"function", "coroutinefunction"}

KwArgs == {"absent", "None", "plain", "no_ff", "ff_none", "resolver"}

PosArgs == {"absent", "plain", "no_ff", "ff_none", "resolver"}

OpOutcomes ==
    {[kind |-> "return", val |-> <<"dict", "{'result': 'success'}">>],
     [kind |-> "raise",  val |-> <<"exception", "RuntimeError">>]}

GateConfigs == ConfigsOver({RU}, {PyTrue}, MaxConfigKeys)

GateEnvs == Environments({}, {}, MaxEnvVars)

GateHandles == {MemberHandle("ENABLE_QUERY_GRAPH"), ENABLE_FLAG_RUNTIME_UPDATES}

GateSetValues == {PyTrue, PyFalse}

\* gated = feature_flag_required(flag, message)(func)
Decorate ==
    /\ phase = "ready"
    /\ task = NoTask
    /\ \E f \in GateFlags, m \in GateMessages, k \in FuncKinds :
         /\ gate' = decorator(f, m, k)
         /\ call' = CallOf("feature_flag_required", f, m, NoConfig)
    /\ ret' = NoRet
    /\ log' = {}
    /\ opcalls' = <<>>
    /\ trail' = IF trail = NoTrail THEN trail ELSE <<>>
    /\ UNCHANGED <<phase, env, flags, task, held, threads, nlq, sqe>>

\* gated(...), func a plain function
GateSync(KW, A0) ==
    /\ phase = "ready"
    /\ gate.kind = "sync"
    /\ task = NoTask
    /\ \E kw \in KW, a0 \in A0, o \in OpOutcomes :
         LET r == sync_wrapper(gate, flags, kw, a0, o)
         IN  /\ call' = GatedCallOf("sync_wrapper", kw, a0, o)
             /\ ret' = r.ret
             /\ opcalls' = r.opcalls
             /\ log' = r.log
             /\ trail' = Track(trail, r.ret.kind = "dict")
    /\ UNCHANGED <<phase, env, flags, gate, task, held, threads, nlq, sqe>>

\* await gated(...), func a coroutine function: runs up to the
\* first suspension of func, or to the end when there is none
GateAsyncStart(KW, A0) ==
    /\ phase = "ready"
    /\ gate.kind = "async"
    /\ task = NoTask
    /\ \E kw \in KW, a0 \in A0, o \in OpOutcomes, suspends \in BOOLEAN :
         LET r == async_wrapper(gate, flags, kw, a0, o, suspends)
         IN  /\ call' = GatedCallOf("async_wrapper", kw, a0,
                                    IF r.suspended THEN NoOutcome ELSE o)
             /\ ret' = r.ret
             /\ opcalls' = r.opcalls
             /\ log' = r.log
             /\ task' = IF r.suspended
                        THEN [state |-> "suspended", kw |-> kw, a0 |-> a0]
                        ELSE NoTask
             /\ trail' = Track(trail, r.ret.kind = "dict")
    /\ UNCHANGED <<phase, env, flags, gate, held, threads, nlq, sqe>>

\* the suspended func resumes and finishes; the wrapper returns its result
GateAsyncResume ==
    /\ task.state = "suspended"
    /\ \E o \in OpOutcomes :
         /\ call' = GatedCallOf("async_wrapper", task.kw, task.a0, o)
         /\ ret' = IF o.kind = "raise" THEN RetRaise(o.val[2]) ELSE RetValue(o.val)
    /\ opcalls' = << [kw |-> task.kw, a0 |-> task.a0] >>
    /\ log' = {}
    /\ task' = NoTask
    /\ UNCHANGED <<phase, env, flags, gate, held, trail, threads, nlq, sqe>>

----------------------------------------------------------------------------
(* Actions of the callers: the utility, the returned mapping, the environment *)

\* the ctx argument of check_feature_flag
CtxArgs == {"None", "plain", "no_ff", "ff_none", "resolver"}

\* keys and values a caller writes into the mapping it holds
HeldKeys == {"enable_query_graph", "enable_flag_runtime_updates", "injected"}

HeldValues == {PyTrue, PyFalse}

ToolHandles == GateHandles \cup {StrHandle("unknown_flag")}

\* the variable the later environment changes touch
LateEnvVars == {EnvVarOf("enable_query_graph")}

LateEnvValues == {"false"}

\* the arguments of the gated calls made next to all other operations: no
\* context, or the context that exposes the manager
LateArgs == {"absent", "resolver"}

\* check_feature_flag(ctx, flag)
CheckFeatureFlag(H) ==
    /\ phase = "ready"
    /\ \E ctx \in CtxArgs, h \in H :
         /\ call' = [CallOf("check_feature_flag", h, NoVal, NoConfig)
                       EXCEPT !.a0 = ctx]
         /\ ret' = RetValue(check_feature_flag(flags, ctx, h))
    /\ log' = {}
    /\ UNCHANGED <<phase, env, flags, opcalls, gate, task, held, trail, threads, nlq, sqe>>

\* the caller edits the mapping it holds: returned[k] = v, or
\* returned.pop(k, None); the manager's dict changes with it only if the
\* mapping is that very dict
MutateReturned ==
    /\ held.obj # "-"
    /\ \E k \in HeldKeys, v \in HeldValues \cup {NoVal} :
         LET m == IF v = NoVal THEN DictDel(held.items, k)
                  ELSE DictSet(held.items, k, v)
         IN  /\ held' = [held EXCEPT !.items = m]
             /\ flags' = IF held.obj = "self.flags" THEN m ELSE flags
             /\ call' = CallOf("mutate_returned", StrHandle(k), v, NoConfig)
    /\ ret' = RetNone
    /\ log' = {}
    /\ UNCHANGED <<phase, env, opcalls, gate, task, trail, threads, nlq, sqe>>

\* os.environ[name] = value, or os.environ.pop(name, None), after the
\* manager was constructed: the manager reads os.environ in __init__ only
SetEnviron ==
    /\ phase = "ready"
    /\ \E n \in LateEnvVars, v \in LateEnvValues \cup {"-"} :
         /\ env' = IF v = "-"
                   THEN [x \in DOMAIN env \ {n} |-> env[x]]
                   ELSE [x \in DOMAIN env \cup {n} |-> IF x = n THEN v ELSE env[x]]
         /\ Cardinality(DOMAIN env') <= MaxEnvVars
         /\ call' = CallOf("os.environ", StrHandle(n), <<"str", v>>, NoConfig)
    /\ ret' = RetNone
    /\ log' = {}
    /\ UNCHANGED <<phase, flags, opcalls, gate, task, held, trail, threads, nlq, sqe>>

----------------------------------------------------------------------------
(* process_natural_language_query and result_needs_refinement (server.py)   *)

UpperCase == "ABCDEFGHIJKLMNOPQRSTUVWXYZ"
LowerCase == "abcdefghijklmnopqrstuvwxyz"

\* str.lower() of one character
LowerChar(c) ==
    IF \E i \in 1..26 : SubSeq(UpperCase, i, i) = c
    THEN LET i == CHOOSE i \in 1..26 : SubSeq(UpperCase, i, i) = c
         IN  SubSeq(LowerCase, i, i)
    ELSE c

\* str.lower()
RECURSIVE Lower(_)
Lower(str) ==
    IF Len(str) = 0 THEN ""
    ELSE LowerChar(SubSeq(str, 1, 1)) \o Lower(SubSeq(str, 2, Len(str)))

\* sub in str
Contains(str, sub) ==
    \E i \in 1..(Len(str) - Len(sub) + 1) : SubSeq(str, i, i + Len(sub) - 1) = sub

insufficient_indicators ==
    {"no results found", "couldn't find", "no data available",
     "no information", "unable to find", "not in our database"}

\* variant: the indicators are looked for in the text as it is
result_needs_refinement_exact_case(result_text) ==
    \E indicator \in insufficient_indicators : Contains(result_text, indicator)

\* result_needs_refinement(result_data), on result_data.get("result", "")
result_needs_refinement(result_text) ==
    \E indicator \in insufficient_indicators :
      Contains(Lower(result_text), indicator)

\* what execute_query gives the loop: a result text, or an exception
RaisedText == "<raised>"

ExecutorResults ==
    {"Found 3 films", "", "No results found", "Sorry, I couldn't find it",
     "NO DATA AVAILABLE", RaisedText}

MaxAttemptsArgs == (0 - 1)..MaxAttempts

\* process_natural_language_query(query, agent_type, max_attempts) is called:
\* attempts = [], and the for loop over range(max_attempts) is entered
NLStart(M) ==
    /\ nlq.pc \in {"idle", "returned", "raised"}
    /\ \E m \in M :
         nlq' = [pc |-> "loop", max_attempts |-> m, attempt |-> 0,
                 attempts |-> <<>>, calls |-> 0, result |-> ""]
    /\ UNCHANGED <<phase, env, flags, call, ret, log, opcalls, gate, task, held,
                   trail, threads, sqe>>

\* one pass of the loop body: execute_query is called, the attempt is
\* recorded, and the loop is left when the result needs no refinement
NLAttempt(R) ==
    /\ nlq.pc = "loop"
    /\ nlq.attempt < nlq.max_attempts
    /\ \E r \in R :
         nlq' = IF r = RaisedText
                THEN [nlq EXCEPT !.pc = "raised", !.calls = @ + 1]
                ELSE LET attempt_info ==
                           [attempt_number |-> nlq.attempt + 1, result |-> r]
                     IN  [nlq EXCEPT
                            !.calls = @ + 1,
                            !.attempts = Append(@, attempt_info),
                            !.pc = IF ~result_needs_refinement(r)
                                   THEN "after" ELSE "loop",
                            !.attempt = IF ~result_needs_refinement(r)
                                        THEN @ ELSE @ + 1]
    /\ UNCHANGED <<phase, env, flags, call, ret, log, opcalls, gate, task, held,
                   trail, threads, sqe>>

\* range(max_attempts) is exhausted
NLExhausted ==
    /\ nlq.pc = "loop"
    /\ nlq.attempt >= nlq.max_attempts
    /\ nlq' = [nlq EXCEPT !.pc = "after"]
    /\ UNCHANGED <<phase, env, flags, call, ret, log, opcalls, gate, task, held,
                   trail, threads, sqe>>

\* final_result = attempts[-1]["result"] if attempts else
\* {"result": "No attempts were made"}; final_result["all_attempts"] = attempts
NLReturn ==
    /\ nlq.pc = "after"
    /\ nlq' = [nlq EXCEPT
                 !.pc = "returned",
                 !.result = IF nlq.attempts # <<>>
                            THEN nlq.attempts[Len(nlq.attempts)].result
                            ELSE "No attempts were made"]
    /\ UNCHANGED <<phase, env, flags, call, ret, log, opcalls, gate, task, held,
                   trail, threads, sqe>>

----------------------------------------------------------------------------
(* SpannerQueryExecutor (utils/query_executor.py)                           *)

\* variant: a store is constructed on every call and replaces the cached one
_get_graph_store_no_cache(x, agent_type, ctor_ok) ==
    IF ctor_ok
    THEN [x EXCEPT !.cache = DictSet(@, agent_type, Len(x.made) + 1),
                   !.made = Append(@, agent_type),
                   !.op = "_get_graph_store", !.agent = agent_type,
                   !.out = "returned", !.exc = "",
                   !.store = Len(x.made) + 1, !.constructed = TRUE,
                   !.chain = "-", !.invoke = "-",
                   !.keys = {}, !.error = ""]
    ELSE [x EXCEPT !.op = "_get_graph_store", !.agent = agent_type,
                   !.out = "raised", !.exc = "RuntimeError",
                   !.store = 0, !.constructed = TRUE,
                   !.chain = "-", !.invoke = "-",
                   !.keys = {}, !.error = ""]

\* _get_graph_store(agent_type); ctor_ok: SpannerGraphStore(...) succeeds
_get_graph_store(x, agent_type, ctor_ok) ==
    IF ~DictHas(x.cache, agent_type)
    THEN IF ctor_ok
         THEN [x EXCEPT !.cache = DictSet(@, agent_type, Len(x.made) + 1),
                        !.made = Append(@, agent_type),
                        !.op = "_get_graph_store", !.agent = agent_type,
                        !.out = "returned", !.exc = "",
                        !.store = Len(x.made) + 1, !.constructed = TRUE,
                        !.chain = "-", !.invoke = "-",
                        !.keys = {}, !.error = ""]
         ELSE [x EXCEPT !.op = "_get_graph_store", !.agent = agent_type,
                        !.out = "raised", !.exc = "RuntimeError",
                        !.store = 0, !.constructed = TRUE,
                        !.chain = "-", !.invoke = "-",
                        !.keys = {}, !.error = ""]
    ELSE [x EXCEPT !.op = "_get_graph_store", !.agent = agent_type,
                   !.out = "returned", !.exc = "",
                   !.store = DictGet(x.cache, agent_type, 0),
                   !.constructed = FALSE,
                   !.chain = "-", !.invoke = "-",
                   !.keys = {}, !.error = ""]

\* execute_query(query, agent_type).  chain: what self._get_llm_chain gives
\* ("None" or "chain"); invoke: what chain.invoke gives ("dict" with a result
\* key, "dict_other" without one, "str", or "raise").  Everything from the
\* lookup of the chain on is inside try ... except Exception.
execute_query(x, agent_type, chain, invoke) ==
    LET failed == chain = "None" \/ invoke = "raise"
        e == IF chain = "None" THEN "No LLM chain configured for agent_type"
             ELSE "Test error"
    IN  [x EXCEPT !.op = "execute_query", !.agent = agent_type,
                  !.out = "returned", !.exc = "",
                  !.store = 0, !.constructed = FALSE,
                  !.chain = chain, !.invoke = invoke,
                  !.keys = IF failed
                           THEN {"result", "intermediate_steps", "error"}
                           ELSE {"result", "intermediate_steps"},
                  !.error = IF failed THEN e ELSE ""]

AgentTypes == {"default", "test_agent", "agent"}

Chains == {"None", "chain"}

InvokeOutcomes == {"dict", "dict_other", "str", "raise"}

\* executor._get_graph_store(agent_type)
GetGraphStore(A) ==
    /\ \E a \in A, ctor_ok \in BOOLEAN :
         /\ DictHas(sqe.cache, a) \/ Len(sqe.made) < MaxBuilds
         /\ sqe' = _get_graph_store(sqe, a, ctor_ok)
    /\ UNCHANGED <<phase, env, flags, call, ret, log, opcalls, gate, task, held,
                   trail, threads, nlq>>

\* executor.execute_query(query, agent_type)
ExecuteQuery(A) ==
    /\ \E a \in A, chain \in Chains, invoke \in InvokeOutcomes :
         sqe' = execute_query(sqe, a, chain, invoke)
    /\ UNCHANGED <<phase, env, flags, call, ret, log, opcalls, gate, task, held,
                   trail, threads, nlq>>

----------------------------------------------------------------------------
(* set_flag run by concurrent callers (threads): a caller can be preempted  *)
(* between the test of the switch and the write; each dict access is atomic *)

\* the flags concurrent callers set: any flag, the switch included
ConcHandles == GateHandles \cup {StrHandle("unknown_flag")}

\* the flags of callers that leave the switch alone
RaceHandles ==
    {MemberHandle("ENABLE_QUERY_GRAPH"), StrHandle("enable_query_graph"),
     MemberHandle("ENABLE_ADMIN_ENDPOINTS")}

\* a caller enters manager.set_flag(flag, enabled)
ThreadCall(H, V) ==
    /\ phase = "ready"
    /\ \E t \in Callers, h \in H, v \in V :
         /\ threads[t].pc = "idle"
         /\ threads' = [threads EXCEPT ![t] =
                          [pc |-> "check", flag |-> h, val |-> v, ret |-> NoVal]]
    /\ UNCHANGED <<phase, env, flags, call, ret, log, opcalls, gate, task, held,
                   trail, nlq, sqe>>

\* lines 140-149: the caller reads the switch and tests the name
ThreadCheck ==
    /\ \E t \in Callers :
         /\ threads[t].pc = "check"
         /\ threads' = [threads EXCEPT ![t] =
                          IF set_flag_check(flags, threads[t].flag)
                          THEN [@ EXCEPT !.pc = "write"]
                          ELSE [@ EXCEPT !.pc = "done", !.ret = PyFalse]]
    /\ UNCHANGED <<phase, env, flags, call, ret, log, opcalls, gate, task, held,
                   trail, nlq, sqe>>

\* lines 151-154: the caller writes the entry and returns True
ThreadWrite ==
    /\ \E t \in Callers :
         /\ threads[t].pc = "write"
         /\ flags' = set_flag_store(flags, threads[t].flag, threads[t].val)
         /\ threads' = [threads EXCEPT ![t] = [@ EXCEPT !.pc = "done", !.ret = PyTrue]]
    /\ UNCHANGED <<phase, env, call, ret, log, opcalls, gate, task, held,
                   trail, nlq, sqe>>

\* the caller has its result and is free for another call
ThreadReturn ==
    /\ \E t \in Callers :
         /\ threads[t].pc = "done"
         /\ threads' = [threads EXCEPT ![t] = IdleThread]
    /\ UNCHANGED <<phase, env, flags, call, ret, log, opcalls, gate, task, held,
                   trail, nlq, sqe>>

----------------------------------------------------------------------------
(* Specifications *)

\* construction from every config and environment, followed by queries
InitC == InitOver(Envs)

NextC ==
    \/ Initialize(Configs)
    \/ IsEnabled(RunHandles)
    \/ GetAllFlags({FALSE})
    \/ GetEnabledFeatures

SpecInit == InitC /\ [][NextC]_vars

\* construction followed by runtime updates and queries
Init == InitOver(RunEnvs)

Next ==
    \/ Initialize(RunConfigs)
    \/ SetFlag(RunHandles, SetValues)
    \/ IsEnabled(RunHandles)
    \/ GetAllFlags({FALSE})
    \/ GetEnabledFeatures

Spec == Init /\ [][Next]_vars

\* construction, gates, gated calls and runtime updates
InitG == InitOver(GateEnvs)

NextG ==
    \/ Initialize(GateConfigs)
    \/ SetFlag(GateHandles, GateSetValues)
    \/ Decorate
    \/ GateSync(KwArgs, PosArgs)
    \/ GateAsyncStart(KwArgs, PosArgs)
    \/ GateAsyncResume

SpecGate == InitG /\ [][NextG]_vars

\* a gate called again and again with a context that exposes the manager,
\* between runtime updates; the decisions of the gate are recorded
SeqKw == {"absent", "resolver"}

SeqPos == {"resolver"}

InitS == InitWith(GateEnvs, <<>>)

NextS ==
    \/ Initialize(GateConfigs)
    \/ SetFlag(GateHandles, GateSetValues)
    \/ Decorate
    \/ GateSync(SeqKw, SeqPos)
    \/ GateAsyncStart(SeqKw, SeqPos)
    \/ GateAsyncResume

SpecSeq == InitS /\ [][NextS]_vars

\* concurrent set_flag calls on any flag, the switch included
NextK ==
    \/ Initialize(GateConfigs)
    \/ ThreadCall(ConcHandles, GateSetValues)
    \/ ThreadCheck
    \/ ThreadWrite
    \/ ThreadReturn

SpecConc == InitG /\ [][NextK]_vars

\* concurrent set_flag calls that leave the switch alone
NextR ==
    \/ Initialize(GateConfigs)
    \/ ThreadCall(RaceHandles, GateSetValues)
    \/ ThreadCheck
    \/ ThreadWrite
    \/ ThreadReturn

SpecRace == InitG /\ [][NextR]_vars

\* one executor asked for graph stores and given queries, in any order
NextP ==
    \/ GetGraphStore(AgentTypes)
    \/ ExecuteQuery(AgentTypes)

SpecStore == InitG /\ [][NextP]_vars

\* the refinement loop; a call that was started runs on to its end
NextQ ==
    \/ NLStart(MaxAttemptsArgs)
    \/ NLAttempt(ExecutorResults)
    \/ NLExhausted
    \/ NLReturn

SpecRefine ==
    /\ InitG
    /\ [][NextQ]_vars
    /\ WF_vars(NLAttempt(ExecutorResults) \/ NLExhausted \/ NLReturn)

\* construction, runtime updates, queries, the utility, and a caller that
\* keeps and edits the mapping it got from get_all_flags()
NextT ==
    \/ Initialize(GateConfigs)
    \/ SetFlag(ToolHandles, GateSetValues)
    \/ IsEnabled(ToolHandles)
    \/ GetAllFlags({TRUE})
    \/ GetEnabledFeatures
    \/ CheckFeatureFlag(ToolHandles)
    \/ MutateReturned

SpecTools == InitG /\ [][NextT]_vars

\* every operation on the resolver, every gated call, and later changes of
\* the environment
NextA ==
    \/ Initialize(GateConfigs)
    \/ SetFlag(GateHandles, GateSetValues)
    \/ IsEnabled(GateHandles)
    \/ GetAllFlags({FALSE})
    \/ GetEnabledFeatures
    \/ CheckFeatureFlag(GateHandles)
    \/ Decorate
    \/ GateSync(LateArgs, LateArgs)
    \/ GateAsyncStart(LateArgs, LateArgs)
    \/ GateAsyncResume
    \/ SetEnviron

SpecAll == InitG /\ [][NextA]_vars

----------------------------------------------------------------------------
(* Vocabulary of the properties *)

\* the closed set of flag names of the data model
ClosedSet ==
    {"enable_query_graph", "enable_schema_fetch", "enable_natural_language",
     "enable_admin_endpoints", "enable_flag_runtime_updates",
     "enable_auth_checks", "enable_rate_limiting",
     "enable_experimental_features"}

\* the documented default: core features on, everything else off
DocumentedDefault(f) ==
    IF f \in {"enable_query_graph", "enable_schema_fetch"} THEN PyTrue ELSE PyFalse

\* the current FlagState entry of f
Entry(f) == DictGet(flags, f, NoVal)

\* the state right after a successful construction
AfterInit == phase = "ready" /\ call.op = "__init__"

\* the environment supplies a value for f
InEnv(f) == EnvVarOf(f) \in DOMAIN env

\* the boolean the environment alone yields for f
EnvBool(f) == DictGet(__init__(NoConfig, env).flags, f, NoVal)

\* the boolean coercion of the value the config gives for f
ConfigBool(f) == bool(DictGet(call.config.items, f, NoVal))

\* the name a flag argument carries
NameOf(h) == IF h[1] = "FeatureFlag" THEN ValueOfMember(h[2]) ELSE h[2]

\* runtime updates are on in the current FlagState
UpdatesOn == Truthy(Entry("enable_flag_runtime_updates"))

\* this step is a set_flag call
SetFlagStep == phase = "ready" /\ call'.op = "set_flag"

\* the context of a gated call: the ctx keyword argument when one is given,
\* else the first positional argument
PassedContext(c) == IF c.kw \notin {"absent", "None"} THEN c.kw ELSE c.a0

\* this step is a gated call entering its wrapper
GatedCallStep ==
    /\ task = NoTask
    /\ call'.op \in {"sync_wrapper", "async_wrapper"}

\* this step is the suspended wrapped operation finishing
ResumeStep == task.state = "suspended" /\ call'.op = "async_wrapper"

\* the gated flag is enabled in the current FlagState
GatedFlagOn == Truthy(Entry(NameOf(gate.flag)))

\* the spellings of a true token, whatever the case of their letters
TrueSpellings == {"true", "TRUE", "True", "1", "yes", "YES", "Yes", "on", "ON", "On"}

\* the value the environment holds for f
EnvValueOf(f) == env[EnvVarOf(f)]

\* this step is a gated call that the gate refuses
RefusedStep == GatedCallStep /\ ret'.kind = "dict"

\* the error field of the refusal this step returns
ErrorField == DictGet(ret'.map, "error", NoVal)

\* the documented default text of a refusal
DefaultText == <<"str", "Feature '" \o NameOf(gate.flag) \o "' is not enabled">>

\* this step is a caller editing the mapping it got from get_all_flags()
MutateStep == held.obj # "-" /\ call'.op = "mutate_returned"

\* the operations that only read the FlagState
ReadingOps ==
    {"is_enabled", "get_all_flags", "get_enabled_features", "check_feature_flag",
     "feature_flag_required", "sync_wrapper", "async_wrapper"}

\* the state right after a successful set_flag on the gated flag
AfterGatedFlagSet ==
    /\ call.op = "set_flag"
    /\ ret = RetValue(PyTrue)
    /\ NameOf(call.flag) = NameOf(gate.flag)

\* this step starts the wrapped operation of an asynchronous gated call
AsyncStartStep ==
    /\ GatedCallStep
    /\ call'.op = "async_wrapper"
    /\ opcalls' # <<>>

\* this step is caller t writing its entry
WriteStepOf(t) == threads[t].pc = "write" /\ threads'[t].pc = "done"

\* callers t and u have both finished a set_flag on the flag f
BothDoneOn(t, u, f) ==
    /\ threads[t].pc = "done" /\ threads[u].pc = "done"
    /\ NameOf(threads[t].flag) = f /\ NameOf(threads[u].flag) = f

\* the result texts that report a failed or insufficient query
InsufficientTexts ==
    {"No results found", "Sorry, I couldn't find it", "NO DATA AVAILABLE"}

\* the loop of the current call is over
LoopOver == nlq.pc \in {"after", "returned", "raised"}

\* how many graph stores were constructed for the agent type a
BuiltFor(a) == Cardinality({i \in 1..Len(sqe.made) : sqe.made[i] = a})

\* a step that is a call of _get_graph_store
GraphStoreStep == sqe'.op = "_get_graph_store"

\* the last execute_query got no chain / got a chain whose invoke raised
NoChainGiven == sqe.op = "execute_query" /\ sqe.chain = "None"

InvokeFailed ==
    sqe.op = "execute_query" /\ sqe.chain = "chain" /\ sqe.invoke = "raise"

----------------------------------------------------------------------------
(* Properties *)

\* C1: for every flag that both the config's feature_flags section and the
\* environment supply with conflicting boolean values, the value resolved by
\* the constructor is the environment's.
EnvironmentPrecedence ==
    AfterInit =>
      \A f \in ClosedSet :
        (ConfigNames(call.config, f) /\ InEnv(f) /\ ConfigBool(f) # EnvBool(f))
          => Entry(f) = EnvBool(f)

\* env "false" against config True resolves to False
EnvironmentPrecedenceWitness ==
    /\ AfterInit
    /\ ConfigNames(call.config, "enable_query_graph")
    /\ DictGet(call.config.items, "enable_query_graph", NoVal) = PyTrue
    /\ InEnv("enable_query_graph")
    /\ env[EnvVarOf("enable_query_graph")] = "false"
    /\ Entry("enable_query_graph") = PyFalse

ConfigOverDefaults ==
    AfterInit =>
      \A f \in ClosedSet :
        ~InEnv(f) =>
          Entry(f) = IF ConfigNames(call.config, f) THEN ConfigBool(f)
                     ELSE DocumentedDefault(f)

\* a non-boolean config value overrides a default it disagrees with
ConfigOverDefaultsWitness ==
    /\ AfterInit
    /\ \E f \in ClosedSet :
         /\ ConfigNames(call.config, f)
         /\ ~InEnv(f)
         /\ ~IsBool(DictGet(call.config.items, f, NoVal))
         /\ Entry(f) = ConfigBool(f)
         /\ Entry(f) # DocumentedDefault(f)

\* C4: once constructed, the key set of the FlagState is exactly the closed
\* set, each name once, whatever the config, the environment and the set_flag
\* calls were.
ClosedTotalKeySet ==
    phase = "ready" =>
      /\ DictKeys(get_all_flags(flags)) = ClosedSet
      /\ Len(flags) = Cardinality(ClosedSet)

\* a set_flag with a name outside the closed set was made while updates are on
ClosedTotalKeySetWitness ==
    /\ phase = "ready"
    /\ call.op = "set_flag"
    /\ call.flag = StrHandle("ENABLE_QUERY_GRAPH")
    /\ UpdatesOn
    /\ ErrUnknownFlag("ENABLE_QUERY_GRAPH") \in log

\* C5: a set_flag made while enable_flag_runtime_updates is false returns
\* False and leaves get_all_flags() as it was, for every name and value.
SetFlagDisabled ==
    [][(SetFlagStep /\ ~UpdatesOn)
         => /\ ret' = RetValue(PyFalse)
            /\ get_all_flags(flags') = get_all_flags(flags)]_vars

\* an attempt to switch the updates back on was refused
SetFlagDisabledWitness ==
    /\ call.op = "set_flag"
    /\ NameOf(call.flag) = "enable_flag_runtime_updates"
    /\ call.val = PyTrue
    /\ ret = RetValue(PyFalse)
    /\ ~UpdatesOn

\* C6: a set_flag made while enable_flag_runtime_updates is true, with a name
\* of the closed set, returns True, makes the entry of that name the given
\* value, leaves every other entry as it was, and repeating it changes nothing.
SetFlagEnabled ==
    [][(SetFlagStep /\ UpdatesOn /\ NameOf(call'.flag) \in ClosedSet)
         => /\ ret' = RetValue(PyTrue)
            /\ DictGet(flags', NameOf(call'.flag), NoVal) = call'.val
            /\ DictKeys(flags') = DictKeys(flags)
            /\ \A k \in ClosedSet \ {NameOf(call'.flag)} :
                 DictGet(flags', k, NoVal) = DictGet(flags, k, NoVal)
            /\ set_flag(flags', call'.flag, call'.val).flags = flags']_vars

\* a successful set_flag stored a non-boolean value for a flag
SetFlagEnabledWitness ==
    /\ call.op = "set_flag"
    /\ ret = RetValue(PyTrue)
    /\ NameOf(call.flag) = "enable_query_graph"
    /\ call.val = PyInt0
    /\ Entry("enable_query_graph") = PyInt0

\* C7: a set_flag with a name outside the closed set returns False (it does
\* not raise) and leaves the FlagState as it was, with updates on or off.
SetFlagUnknownName ==
    [][(SetFlagStep /\ NameOf(call'.flag) \notin ClosedSet)
         => /\ ret' = RetValue(PyFalse)
            /\ flags' = flags]_vars

\* an unknown name was rejected while updates are on
SetFlagUnknownNameWitness ==
    /\ call.op = "set_flag"
    /\ NameOf(call.flag) = "unknown_flag"
    /\ UpdatesOn
    /\ ret = RetValue(PyFalse)

\* C8: is_enabled returns False for a name outside the closed set and the
\* current entry for a name of the closed set, and the raw name and the enum
\* member carrying it give the same answer.
IsEnabledFailClosed ==
    /\ call.op = "is_enabled" =>
         ret = RetValue(IF NameOf(call.flag) \in ClosedSet
                        THEN Entry(NameOf(call.flag)) ELSE PyFalse)
    /\ phase = "ready" =>
         \A f \in ClosedSet :
           is_enabled(flags, StrHandle(f)) = is_enabled(flags, MemberHandle(StrUpper(f)))

\* the member's NAME is no flag name: False, although that member's flag is on
IsEnabledFailClosedWitness ==
    /\ call.op = "is_enabled"
    /\ call.flag = StrHandle("ENABLE_QUERY_GRAPH")
    /\ ret = RetValue(PyFalse)
    /\ Entry("enable_query_graph") = PyTrue

\* C9: a gated call, sync or async, whose context exposes the resolver while
\* the gated flag is disabled does not invoke the wrapped operation and
\* returns exactly {error, feature_required: the flag's name, enabled: False}.
GateRefusal ==
    [][(GatedCallStep /\ PassedContext(call') = "resolver" /\ ~GatedFlagOn)
         => /\ opcalls' = <<>>
            /\ ret'.kind = "dict"
            /\ Len(ret'.map) = 3
            /\ DictKeys(ret'.map) = {"error", "feature_required", "enabled"}
            /\ DictGet(ret'.map, "feature_required", NoVal)
                 = <<"str", NameOf(gate.flag)>>
            /\ DictGet(ret'.map, "enabled", NoVal) = PyFalse]_vars

\* an async gated call with the context as first positional argument refused
GateRefusalWitness ==
    /\ call.op = "async_wrapper"
    /\ call.kw = "absent"
    /\ call.a0 = "resolver"
    /\ ~GatedFlagOn
    /\ ret.kind = "dict"
    /\ opcalls = <<>>

\* C10: a gated call whose context exposes the resolver while the gated flag
\* is enabled invokes the wrapped operation once with the arguments of the
\* call and returns its result unchanged, at once or after its suspension.
GatePassThrough ==
    [][/\ (GatedCallStep /\ PassedContext(call') = "resolver" /\ GatedFlagOn)
            => /\ opcalls' = << [kw |-> call'.kw, a0 |-> call'.a0] >>
               /\ \/ ret' = RetPending /\ task'.state = "suspended"
                  \/ call'.outcome.kind = "raise" /\ ret'.kind = "raise"
                  \/ call'.outcome.kind = "return" /\ ret' = RetValue(call'.outcome.val)
       /\ ResumeStep
            => /\ opcalls' = << [kw |-> task.kw, a0 |-> task.a0] >>
               /\ call'.outcome.kind = "return" => ret' = RetValue(call'.outcome.val)]_vars

\* a sync gated call with the context as first positional argument passed
GatePassThroughWitness ==
    /\ call.op = "sync_wrapper"
    /\ call.kw = "absent"
    /\ call.a0 = "resolver"
    /\ GatedFlagOn
    /\ Len(opcalls) = 1
    /\ ret = RetValue(<<"dict", "{'result': 'success'}">>)

\* C11: a gated call with no context among its arguments, with a context
\* that lacks lifespan_ctx, or with a context whose lifespan_ctx exposes no
\* resolver invokes the wrapped operation exactly once and returns its result:
\* no refusal payload is produced and the only exception is the operation's own.
GateFailOpen ==
    [][/\ (GatedCallStep /\ PassedContext(call') # "resolver")
            => /\ opcalls' = << [kw |-> call'.kw, a0 |-> call'.a0] >>
               /\ ret'.kind # "dict"
               /\ \/ ret' = RetPending /\ task'.state = "suspended"
                  \/ /\ call'.outcome.kind = "raise"
                     /\ ret' = RetRaise(call'.outcome.val[2])
                  \/ /\ call'.outcome.kind = "return"
                     /\ ret' = RetValue(call'.outcome.val)
       /\ (ResumeStep /\ PassedContext(task) # "resolver")
            => /\ opcalls' = << [kw |-> task.kw, a0 |-> task.a0] >>
               /\ ret' = IF call'.outcome.kind = "raise"
                         THEN RetRaise(call'.outcome.val[2])
                         ELSE RetValue(call'.outcome.val)]_vars

\* a sync gated call whose context exposes no resolver went through although
\* the gated flag is disabled
GateFailOpenWitness ==
    /\ call.op = "sync_wrapper"
    /\ call.kw = "ff_none"
    /\ call.a0 = "absent"
    /\ ~GatedFlagOn
    /\ Len(opcalls) = 1
    /\ ret = RetValue(<<"dict", "{'result': 'success'}">>)

\* C12: for every gated flag, FlagState and shape of the call's arguments, the
\* wrapper of a plain function and the wrapper of a coroutine function take
\* the same decision, invoke the operation the same number of times and return
\* the same value; the async one may do so after a suspension.
GateSyncAsyncEquivalent ==
    [][/\ (GatedCallStep /\ call'.op = "sync_wrapper")
            => LET a == async_wrapper(gate, flags, call'.kw, call'.a0,
                                      call'.outcome, FALSE)
               IN  ret' = a.ret /\ opcalls' = a.opcalls
       /\ (GatedCallStep /\ call'.op = "async_wrapper" /\ task' = NoTask)
            => LET s == sync_wrapper(gate, flags, call'.kw, call'.a0, call'.outcome)
               IN  ret' = s.ret /\ opcalls' = s.opcalls
       /\ (GatedCallStep /\ call'.op = "async_wrapper" /\ task' # NoTask)
            => \A o \in OpOutcomes :
                 LET s == sync_wrapper(gate, flags, call'.kw, call'.a0, o)
                 IN  s.ret.kind # "dict" /\ opcalls' = s.opcalls
       /\ ResumeStep
            => ret' = IF call'.outcome.kind = "raise"
                      THEN RetRaise(call'.outcome.val[2])
                      ELSE RetValue(call'.outcome.val)]_vars

\* an async gated call refused the context passed after ctx=None, with the
\* payload the sync wrapper gives for the same call
GateSyncAsyncEquivalentWitness ==
    /\ call.op = "async_wrapper"
    /\ call.kw = "None"
    /\ call.a0 = "resolver"
    /\ ~GatedFlagOn
    /\ opcalls = <<>>
    /\ ret = sync_wrapper(gate, flags, "None", "resolver", call.outcome).ret
    /\ ret.kind = "dict"

\* C13 as stated: a flag whose environment variable is present resolves to
\* true exactly when the value is one of "true", "1", "yes", "on" as written,
\* a differently-cased value giving false.
EnvTokenRuleExactCase ==
    AfterInit =>
      \A f \in ClosedSet :
        InEnv(f) =>
          Entry(f) = PyBoolOf(EnvValueOf(f) \in {"true", "1", "yes", "on"})

\* C13: a flag whose environment variable is present resolves to true exactly
\* when the value is a spelling of "true", "1", "yes" or "on" in any letter
\* case, and to false for anything else (empty, malformed, whitespace-padded);
\* no environment makes the constructor raise.
EnvTokenRule ==
    /\ AfterInit =>
         \A f \in ClosedSet :
           InEnv(f) => Entry(f) = PyBoolOf(EnvValueOf(f) \in TrueSpellings)
    /\ __init__(NoConfig, env).raised = ""
    /\ (call.op = "__init__" /\ ret.kind = "raise")
         => call.config.section \notin {"absent", "dict"}

\* the value "TRUE" switched on a flag that is off by default
EnvTokenRuleWitness ==
    /\ AfterInit
    /\ InEnv("enable_natural_language")
    /\ EnvValueOf("enable_natural_language") = "TRUE"
    /\ ~ConfigNames(call.config, "enable_natural_language")
    /\ Entry("enable_natural_language") = PyTrue

\* C14: for every config (none, empty, without feature_flags, with unknown
\* keys or non-boolean values, with a feature_flags that is no mapping) and
\* every environment, the constructor completes without raising and leaves a
\* FlagState with a value for every flag of the closed set.
InitializeNeverAborts ==
    call.op = "__init__" =>
      /\ ret.kind # "raise"
      /\ phase = "ready"
      /\ DictKeys(flags) = ClosedSet

\* C16: in every state reached by the constructor and set_flag calls, the
\* names get_enabled_features() returns are exactly the names whose value in
\* get_all_flags() is true, each once.
EnabledFeaturesConsistent ==
    phase = "ready" =>
      LET names == get_enabled_features(flags)
          all   == get_all_flags(flags)
          on    == {k \in DictKeys(all) : Truthy(DictGet(all, k, NoVal))}
      IN  /\ {names[i] : i \in 1..Len(names)} = on
          /\ Len(names) = Cardinality(on)
          /\ call.op = "get_enabled_features" => ret = RetList(names)

\* get_enabled_features() listed a flag that set_flag gave the value "off"
EnabledFeaturesConsistentWitness ==
    /\ call.op = "get_enabled_features"
    /\ Entry("enable_query_graph") = PyStrOff
    /\ Entry("enable_schema_fetch") = PyTrue
    /\ ret.kind = "list"
    /\ \E i \in 1..Len(ret.names) : ret.names[i] = "enable_query_graph"
    /\ \A i \in 1..Len(ret.names) : ret.names[i] # "enable_admin_endpoints"

\* C17 as stated: the error field of a refusal is the message the gate was
\* created with, for every message supplied, and the default text only when
\* none was supplied.
RefusalMessageAsSupplied ==
    [][RefusedStep
         => ErrorField = IF gate.message # PyNone THEN gate.message
                         ELSE DefaultText]_vars

\* C17: the error field of a refusal is the message the gate was created
\* with, for every non-empty message, and the default text
\* "Feature '<flag name>' is not enabled" when no message or an empty one
\* was supplied.
RefusalMessage ==
    [][RefusedStep
         => ErrorField = IF gate.message \notin {PyNone, PyStrEmpty}
                         THEN gate.message
                         ELSE DefaultText]_vars

\* a gate created with a custom message refused a call with that message
RefusalMessageWitness ==
    /\ call.op = "sync_wrapper"
    /\ ret.kind = "dict"
    /\ gate.message = <<"str", "Admin access required">>
    /\ gate.flag = MemberHandle("ENABLE_ADMIN_ENDPOINTS")
    /\ DictGet(ret.map, "error", NoVal) = <<"str", "Admin access required">>

\* C20: the gate finds the context as the ctx keyword argument or as the
\* first positional argument exposing lifespan_ctx: a gated call is refused
\* whenever either of the two exposes the resolver while the gated flag is
\* disabled, and a context gets the same decision passed by keyword or as
\* first positional argument.
GateContextLookup ==
    [][GatedCallStep
         => /\ ((call'.kw = "resolver" \/ call'.a0 = "resolver") /\ ~GatedFlagOn)
                 => (ret'.kind = "dict" /\ opcalls' = <<>>)
            /\ \A c \in PosArgs \ {"absent"} :
                 /\ SyncCheck(gate, flags, c, "absent").refused
                      = SyncCheck(gate, flags, "absent", c).refused
                 /\ AsyncCheck(gate, flags, c, "absent").refused
                      = AsyncCheck(gate, flags, "absent", c).refused]_vars

\* C15: adding, removing or changing entries of the mapping get_all_flags()
\* returned changes the result of no later is_enabled, get_all_flags or
\* get_enabled_features call and not what set_flag does.
DefensiveCopy ==
    [][MutateStep
         => /\ \A h \in ToolHandles : is_enabled(flags', h) = is_enabled(flags, h)
            /\ get_all_flags(flags') = get_all_flags(flags)
            /\ get_enabled_features(flags') = get_enabled_features(flags)
            /\ \A h \in ToolHandles, v \in SetValues :
                 set_flag(flags', h, v) = set_flag(flags, h, v)]_vars

\* the caller added a key to the mapping it holds and switched a flag off in
\* it; is_enabled still answers True for that flag
DefensiveCopyWitness ==
    /\ call.op = "is_enabled"
    /\ NameOf(call.flag) = "enable_query_graph"
    /\ ret = RetValue(PyTrue)
    /\ held.obj # "-"
    /\ DictHas(held.items, "injected")
    /\ DictGet(held.items, "enable_query_graph", NoVal) = PyFalse

\* C18: check_feature_flag(ctx, flag) returns False when ctx has no
\* lifespan_ctx or its lifespan_ctx exposes no resolver, returns is_enabled(flag)
\* of the resolver otherwise, and does not raise.
CheckFeatureFlagFailClosed ==
    call.op = "check_feature_flag" =>
      /\ ret.kind = "value"
      /\ call.a0 \in {"None", "plain", "no_ff", "ff_none"} => ret = RetValue(PyFalse)
      /\ call.a0 = "resolver" =>
           ret = RetValue(IF NameOf(call.flag) \in ClosedSet
                          THEN Entry(NameOf(call.flag)) ELSE PyFalse)

\* the check answered False for an enabled flag because the context's
\* feature_flags is None
CheckFeatureFlagFailClosedWitness ==
    /\ call.op = "check_feature_flag"
    /\ call.a0 = "ff_none"
    /\ call.flag = MemberHandle("ENABLE_QUERY_GRAPH")
    /\ Entry("enable_query_graph") = PyTrue
    /\ ret = RetValue(PyFalse)

\* C19: once the constructor has returned, the FlagState changes only in a
\* set_flag call that returns True: the queries, check_feature_flag, building
\* and calling a gate, a set_flag that returns False and a change of the
\* process environment leave it as it was.
SingleMutationPath ==
    [][phase = "ready"
         => /\ flags' # flags => (call'.op = "set_flag" /\ ret' = RetValue(PyTrue))
            /\ (call'.op \in ReadingOps \/ ResumeStep) => flags' = flags
            /\ (call'.op = "set_flag" /\ ret' # RetValue(PyTrue)) => flags' = flags
            /\ env' # env => flags' = flags]_vars

\* the environment now says "false" for a flag that stays enabled
SingleMutationPathWitness ==
    /\ phase = "ready"
    /\ call.op = "os.environ"
    /\ InEnv("enable_query_graph")
    /\ EnvValueOf("enable_query_graph") = "false"
    /\ Entry("enable_query_graph") = PyTrue

\* C25: every gated call that proceeds because no resolver can be consulted
\* emits a warning: when no context is found among the arguments, and when a
\* context is found that exposes no resolver.
FailOpenLogged ==
    [][(GatedCallStep /\ PassedContext(call') # "resolver")
         => \E r \in log' : r[1] = "warning"]_vars

\* C26: after the constructor and any sequence of set_flag calls, with
\* config values and set_flag values of any type, every value of the FlagState
\* is a boolean, and so is whatever is_enabled and get_all_flags yield.
BooleanValuedState ==
    phase = "ready" =>
      /\ \A i \in 1..Len(flags) : IsBool(flags[i][2])
      /\ \A i \in 1..Len(get_all_flags(flags)) : IsBool(get_all_flags(flags)[i][2])
      /\ call.op = "is_enabled" => IsBool(ret.val)

\* C27: while enable_flag_runtime_updates is false, whether since the
\* constructor or since a set_flag switched it off, every set_flag returns
\* False and no operation changes any entry of the FlagState, so the switch
\* never becomes true again.
RuntimeUpdatesLatch ==
    [][(phase = "ready" /\ ~UpdatesOn)
         => /\ flags' = flags
            /\ ~Truthy(DictGet(flags', "enable_flag_runtime_updates", NoVal))
            /\ call'.op = "set_flag" => ret' = RetValue(PyFalse)]_vars

\* after a set_flag switched the updates off, the attempt to switch them on
\* again was refused
RuntimeUpdatesLatchWitness ==
    /\ phase = "ready"
    /\ call.op = "set_flag"
    /\ call.flag = ENABLE_FLAG_RUNTIME_UPDATES
    /\ call.val = PyTrue
    /\ ret = RetValue(PyFalse)
    /\ WarnUpdatesDisabled \in log
    /\ Entry("enable_flag_runtime_updates") = PyFalse
    /\ Entry("enable_query_graph") = PyFalse

\* C21: the gate keeps no state across calls: whatever the earlier gated
\* calls of the gate decided, a gated call is refused exactly when the gated
\* flag is disabled at that moment; the call that follows a successful
\* set_flag(flag, False) is refused and the one that follows a successful
\* set_flag(flag, True) passes through.
GateStateless ==
    [][(GatedCallStep /\ PassedContext(call') = "resolver")
         => /\ (ret'.kind = "dict") = ~GatedFlagOn
            /\ (opcalls' = <<>>) = ~GatedFlagOn
            /\ AfterGatedFlagSet => ((ret'.kind = "dict") = ~Truthy(call.val))]_vars

\* one gate passed a call, refused the next and passed the one after
GateStatelessWitness ==
    /\ trail = <<"passed", "refused", "passed">>
    /\ call.op = "sync_wrapper"
    /\ GatedFlagOn
    /\ ret = RetValue(<<"dict", "{'result': 'success'}">>)

\* C24: the asynchronous wrapper starts the wrapped operation in the step
\* that checks the flag, so nothing runs between the check and the start: the
\* operation never starts while the gated flag is disabled in the resolver the
\* gate consulted, and a suspended call had started it before it suspended.
AsyncCheckBeforeSuspension ==
    [][/\ (AsyncStartStep /\ PassedContext(call') = "resolver") => GatedFlagOn
       /\ (GatedCallStep /\ call'.op = "async_wrapper" /\ task'.state = "suspended")
            => opcalls' = << [kw |-> call'.kw, a0 |-> call'.a0] >>
       /\ ResumeStep => (opcalls = << [kw |-> task.kw, a0 |-> task.a0] >>
                         /\ opcalls' = opcalls)]_vars

\* the flag was switched off while the started operation was suspended
AsyncCheckBeforeSuspensionWitness ==
    /\ task.state = "suspended"
    /\ call.op = "set_flag"
    /\ ret = RetValue(PyTrue)
    /\ NameOf(call.flag) = NameOf(gate.flag)
    /\ ~GatedFlagOn
    /\ Len(opcalls) = 1

\* C22: when several callers run set_flag at the same time, an entry is
\* written only in a state where enable_flag_runtime_updates is true: no
\* caller writes (and returns True) after another caller has switched the
\* updates off.
SetFlagAuthorisedWrites ==
    [][\A t \in Callers : WriteStepOf(t) => UpdatesOn]_vars

\* C23: when two callers run set_flag on the same flag, not the switch, at
\* the same time while updates are enabled, both return True, the entry ends
\* up as the value one of the two wrote, every write leaves each other entry
\* as it was, and no entry is lost.
ConcurrentLastWriteWins ==
    /\ [](\A f \in ClosedSet \ {"enable_flag_runtime_updates"} :
            (UpdatesOn /\ BothDoneOn("t1", "t2", f))
              => /\ threads["t1"].ret = PyTrue
                 /\ threads["t2"].ret = PyTrue
                 /\ Entry(f) \in {threads["t1"].val, threads["t2"].val}
                 /\ DictKeys(flags) = ClosedSet
                 /\ Len(flags) = Cardinality(ClosedSet))
    /\ [][\A t \in Callers :
            WriteStepOf(t)
              => \A k \in ClosedSet \ {NameOf(threads[t].flag)} :
                   DictGet(flags', k, NoVal) = DictGet(flags, k, NoVal)]_vars

\* both callers set enable_query_graph, to different values, and both
\* returned True; the entry is the value of the one that wrote last
ConcurrentLastWriteWinsWitness ==
    /\ UpdatesOn
    /\ BothDoneOn("t1", "t2", "enable_query_graph")
    /\ threads["t1"].val = PyFalse
    /\ threads["t2"].val = PyTrue
    /\ threads["t1"].ret = PyTrue
    /\ threads["t2"].ret = PyTrue
    /\ Entry("enable_query_graph") = PyFalse

\* C28: for every max_attempts and every sequence of executor results,
\* process_natural_language_query comes to an end after at most max_attempts
\* executor calls; it stops right after the first attempt whose result needs
\* no refinement; all_attempts has one entry per executor call, numbered from
\* 1; with max_attempts <= 0 the executor is never called and the result says
\* that no attempts were made.
BoundedRefinement ==
    /\ [](/\ nlq.calls <= (IF nlq.max_attempts > 0 THEN nlq.max_attempts ELSE 0)
          /\ Len(nlq.attempts) = (IF nlq.pc = "raised" THEN nlq.calls - 1
                                  ELSE nlq.calls)
          /\ \A i \in 1..Len(nlq.attempts) :
               /\ nlq.attempts[i].attempt_number = i
               /\ i < Len(nlq.attempts)
                    => nlq.attempts[i].result \in InsufficientTexts
          /\ (nlq.pc = "loop" /\ nlq.attempts # <<>>)
               => nlq.attempts[Len(nlq.attempts)].result \in InsufficientTexts
          /\ (nlq.pc \in {"after", "returned"} /\ nlq.calls < nlq.max_attempts)
               => /\ nlq.attempts # <<>>
                  /\ nlq.attempts[Len(nlq.attempts)].result \notin InsufficientTexts
          /\ (nlq.pc = "returned" /\ nlq.max_attempts <= 0)
               => /\ nlq.calls = 0
                  /\ nlq.attempts = <<>>
                  /\ nlq.result = "No attempts were made")
    /\ (nlq.pc = "loop") ~> LoopOver

\* with max_attempts 3 the call returned after two attempts: the first result
\* was insufficient in capital letters, the second was fine
BoundedRefinementWitness ==
    /\ nlq.pc = "returned"
    /\ nlq.max_attempts = 3
    /\ nlq.calls = 2
    /\ Len(nlq.attempts) = 2
    /\ nlq.attempts[1].result = "NO DATA AVAILABLE"
    /\ nlq.attempts[2].attempt_number = 2
    /\ nlq.result = "Found 3 films"

\* C29: over any sequence of _get_graph_store calls a store is constructed at
\* most once per agent type and the cache maps the agent type to that store;
\* a call for a cached agent type returns the cached store and constructs
\* nothing; a call for an agent type that is not cached constructs, and
\* either caches and returns the new store, or raises RuntimeError and
\* leaves the cache without an entry for the agent type.
GraphStoreCache ==
    /\ [](\A a \in AgentTypes :
            /\ BuiltFor(a) <= 1
            /\ DictHas(sqe.cache, a) <=> BuiltFor(a) = 1
            /\ DictHas(sqe.cache, a) =>
                   sqe.made[DictGet(sqe.cache, a, 0)] = a)
    /\ [][GraphStoreStep =>
            LET a == sqe'.agent
            IN  IF DictHas(sqe.cache, a)
                THEN /\ sqe'.out = "returned"
                     /\ sqe'.store = DictGet(sqe.cache, a, 0)
                     /\ ~sqe'.constructed
                     /\ sqe'.cache = sqe.cache
                     /\ sqe'.made = sqe.made
                ELSE /\ sqe'.constructed
                     /\ \/ /\ sqe'.out = "returned"
                           /\ sqe'.made = Append(sqe.made, a)
                           /\ sqe'.store = Len(sqe'.made)
                           /\ DictGet(sqe'.cache, a, 0) = sqe'.store
                        \/ /\ sqe'.out = "raised"
                           /\ sqe'.exc = "RuntimeError"
                           /\ sqe'.cache = sqe.cache
                           /\ sqe'.made = sqe.made
                           /\ ~DictHas(sqe'.cache, a)]_vars

\* the second store constructed is returned from the cache
GraphStoreCacheWitness ==
    /\ sqe.op = "_get_graph_store"
    /\ sqe.out = "returned"
    /\ ~sqe.constructed
    /\ sqe.store = 2
    /\ Len(sqe.made) = 3

\* C30: execute_query raises ValueError when the chain factory gives no
\* chain, and returns a mapping with the keys result, intermediate_steps and
\* error when invoking the chain fails.
NoChainRaisesValueError ==
    /\ NoChainGiven => sqe.out = "raised" /\ sqe.exc = "ValueError"
    /\ InvokeFailed =>
           /\ sqe.out = "returned"
           /\ {"result", "intermediate_steps", "error"} \subseteq sqe.keys

====
